---- MODULE Spec2Model ----
(***************************************************************************)
(* A model of the `encryption` crate: the key material and its windowed   *)
(* subkey selection (src/src/key.rs), the generic cipher engine in both   *)
(* windowing modes (src/src/algorithm.rs), and the S-box index hash and   *)
(* the packed indexed block of the 248-byte configuration                 *)
(* (src/src/alg2.rs).                                                     *)
(*                                                                         *)
(* Memory is modelled as it is in the crate: the key, the block and the   *)
(* indexed block are byte buffers, and a word is what a reinterpreting    *)
(* view reads from them in native byte order.  TLC's integers are 32 bits *)
(* wide, so integer widths are scaled: an index is IndexBytes bytes wide  *)
(* (the crate's are 4 and 8), usize is as wide as the index on the        *)
(* "wide" target and one byte narrower on the "narrow" one (a 32-bit      *)
(* target running the 64-bit-index cipher), and the cipher's words are    *)
(* u8 and u16.  All arithmetic keeps its width (mod 2^bits).              *)
(***************************************************************************)
EXTENDS Integers, Sequences, FiniteSets, TLC

VARIABLES
    cfg,        \* the build and the instantiation: features, target, generic parameters
    key,        \* Key<N>.0: the key material, N bytes
    index_key,  \* GenericCipher.index_key: the secret index offset
    block,      \* the caller's block buffer, BLOCK_BYTES bytes
    hist,       \* the calls made so far, oldest first, each with its arguments and outcome
    FREQ,       \* the diagnostic usage counters: offset -> count (absent = no entry)
    iblock,     \* an IndexedBlock's memory, as as_bytes exposes it
    lock,       \* the thread holding the Mutex around FREQ, or NoThread
    thread      \* each thread's position in its subkey call, and the call's locals

vars == <<cfg, key, index_key, block, hist, FREQ, iblock, lock, thread>>

----------------------------------------------------------------------------
(* Bounds of the model.                                                    *)

\* width of the index type in bytes (scaled; u32 is 4 and u64 is 8)
IndexBytes == 2
\* largest key, in bytes, besides the 32-byte key of tests::subkey
MaxKeyBytes == 6
\* largest block, in bytes
MaxBlockBytes == 4
\* largest window length requested from subkey directly
MaxWindow == 5
\* largest small word offset passed to subkey directly (tests::subkey runs 0..32)
MaxOffset == 32
\* calls of cipher_block made on one engine
MaxCalls == 2

----------------------------------------------------------------------------
(* Integers of fixed width.                                                *)

RECURSIVE Pow2(_)
Pow2(n) == IF n = 0 THEN 1 ELSE 2 * Pow2(n - 1)

Max(a, b) == IF a >= b THEN a ELSE b

\* the largest value of an unsigned integer of n bytes
UMax(n) == Pow2(8 * n) - 1

\* a ^ b on unsigned integers (core::ops::BitXor)
RECURSIVE BitXor(_, _)
BitXor(a, b) ==
    IF a = 0 THEN b
    ELSE IF b = 0 THEN a
    ELSE (((a % 2) + (b % 2)) % 2) + 2 * BitXor(a \div 2, b \div 2)

\* w << n on a word of `size` bytes, n < 8 * size: the bits shifted out are lost
Shl(w, n, size) == (w * Pow2(n)) % Pow2(8 * size)

\* w >> n on an unsigned word
Shr(w, n) == w \div Pow2(n)

Reverse(s) == [i \in 1..Len(s) |-> s[Len(s) + 1 - i]]

\* x.to_ne_bytes() for an integer of n bytes: memory order, on a little-endian
\* (le) or a big-endian target
to_ne_bytes(x, n, le) ==
    LET lsb_first == [i \in 1..n |-> (x \div Pow2(8 * (i - 1))) % 256]
    IN  IF le THEN lsb_first ELSE Reverse(lsb_first)

\* from_ne_bytes(bytes)
RECURSIVE from_le_bytes(_)
from_le_bytes(bytes) ==
    IF bytes = <<>> THEN 0 ELSE Head(bytes) + 256 * from_le_bytes(Tail(bytes))

from_ne_bytes(bytes, le) ==
    IF le THEN from_le_bytes(bytes) ELSE from_le_bytes(Reverse(bytes))

----------------------------------------------------------------------------
(* alg2.rs: the index hash.                                                *)

S_BOX == <<
     99, 124, 119, 123, 242, 107, 111, 197,  48,   1, 103,  43, 254, 215, 171, 118,
    202, 130, 201, 125, 250,  89,  71, 240, 173, 212, 162, 175, 156, 164, 114, 192,
    183, 253, 147,  38,  54,  63, 247, 204,  52, 165, 229, 241, 113, 216,  49,  21,
      4, 199,  35, 195,  24, 150,   5, 154,   7,  18, 128, 226, 235,  39, 178, 117,
      9, 131,  44,  26,  27, 110,  90, 160,  82,  59, 214, 179,  41, 227,  47, 132,
     83, 209,   0, 237,  32, 252, 177,  91, 106, 203, 190,  57,  74,  76,  88, 207,
    208, 239, 170, 251,  67,  77,  51, 133,  69, 249,   2, 127,  80,  60, 159, 168,
     81, 163,  64, 143, 146, 157,  56, 245, 188, 182, 218,  33,  16, 255, 243, 210,
    205,  12,  19, 236,  95, 151,  68,  23, 196, 167, 126,  61, 100,  93,  25, 115,
     96, 129,  79, 220,  34,  42, 144, 136,  70, 238, 184,  20, 222,  94,  11, 219,
    224,  50,  58,  10,  73,   6,  36,  92, 194, 211, 172,  98, 145, 149, 228, 121,
    231, 200,  55, 109, 141, 213,  78, 169, 108,  86, 244, 234, 101, 122, 174,   8,
    186, 120,  37,  46,  28, 166, 180, 198, 232, 221, 116,  31,  75, 189, 139, 138,
    112,  62, 181, 102,  72,   3, 246,  14,  97,  53,  87, 185, 134, 193,  29, 158,
    225, 248, 152,  17, 105, 217, 142, 148, 155,  30, 135, 233, 206,  85,  40, 223,
    140, 161, 137,  13, 191, 230,  66, 104,  65, 153,  45,  15, 176,  84, 187,  22 >>

\* S_BOX[b as usize]: Rust indexes from 0
sbox(b) == S_BOX[b + 1]

\* hash reading the index in one byte order and building the result in the other
hash_mixed_order(index, le) ==
    LET bytes == to_ne_bytes(index, IndexBytes, le)
    IN  from_ne_bytes([i \in 1..Len(bytes) |-> sbox(bytes[i])], ~le)

\* hash(index): every byte of the index through the S-box
hash(index, le) ==
    LET bytes == to_ne_bytes(index, IndexBytes, le)
    IN  from_ne_bytes([i \in 1..Len(bytes) |-> sbox(bytes[i])], le)

----------------------------------------------------------------------------
(* key.rs: the key material.                                               *)

\* a byte of a buffer at byte position i (from 0).  A position outside the
\* buffer is read only by code whose offset arithmetic is wrong; the read is
\* undefined behaviour and is marked by the value Outside.
Outside == 0 - 1
mem(buf, i) == IF i >= 0 /\ i < Len(buf) THEN buf[i + 1] ELSE Outside

\* word_at with the offset added to the byte pointer instead of the word pointer
word_at_byte_pointer(buf, size, p) == [b \in 1..size |-> mem(buf, p + b - 1)]

\* the word of `size` bytes at word position p of a buffer viewed as words:
\* its bytes in memory order (*(ptr as *const W).add(p))
word_at(buf, size, p) == [b \in 1..size |-> mem(buf, p * size + b - 1)]

\* check_element_length comparing L with the key's bytes instead of its words
check_element_length_in_bytes(N, size, L) ==
    [panic |-> L > N, key_elements |-> N \div size]

\* Key::check_element_length::<W, L>: key_elements, or a panic
check_element_length(N, size, L) ==
    LET key_elements == N \div size
    IN  [panic |-> L > key_elements, key_elements |-> key_elements]

\* the FREQ entry of an offset incremented (entry(offset).or_insert(0) += 1)
freq_bump(freq, offset) ==
    IF offset \in DOMAIN freq
    THEN [freq EXCEPT ![offset] = @ + 1]
    ELSE [o \in DOMAIN freq \cup {offset} |-> IF o = offset THEN 1 ELSE freq[o]]

\* max_index without the window's length taken off
max_index_of_whole_key(key_elements, L) == key_elements + 1

\* the exclusive bound of the window's start, (key_elements + 1) - L
max_index_of(key_elements, L) == (key_elements + 1) - L

\* subkey with the window's start moved on by the number of offsets used so far
subkey_by_usage(c, k, size, L, word_offset, freq) ==
    LET chk == check_element_length(Len(k), size, L)
        usize == Pow2(8 * c.usize_bytes)
        max_index == (max_index_of(chk.key_elements, L) + usize) % usize
        offset == (word_offset + Cardinality(DOMAIN freq)) % max_index
        failed(why) == [status |-> "panic", why |-> why, offset |-> 0,
                        window |-> <<>>, reads |-> {}, freq |-> freq]
    IN  IF chk.panic \/ max_index_of(chk.key_elements, L) <= 0
        THEN failed("subkey larger than main key")
        ELSE [status |-> "ok", why |-> "", offset |-> offset,
              window |-> [j \in 1..L |-> word_at(k, size, offset + j - 1)],
              reads |-> {offset + j - 1 : j \in 1..L},
              freq |-> IF c.std THEN freq_bump(freq, offset) ELSE freq]

\* Key::subkey::<W, L>(word_offset) on key material k, W of `size` bytes:
\* the window (L words, each its bytes in memory order), the word positions
\* read, and the diagnostic counters afterwards (feature "std").  The usize
\* arithmetic of lines 78 and 81 panics or wraps as the build has it.
subkey(c, k, size, L, word_offset, freq) ==
    LET chk == check_element_length(Len(k), size, L)
        usize == Pow2(8 * c.usize_bytes)
        max_index == (max_index_of(chk.key_elements, L) + usize) % usize
        offset == word_offset % max_index
        failed(why) == [status |-> "panic", why |-> why, offset |-> 0,
                        window |-> <<>>, reads |-> {}, freq |-> freq]
    IN  IF chk.panic
        THEN failed("subkey larger than main key")
        ELSE IF c.debug /\ max_index_of(chk.key_elements, L) < 0
        THEN failed("subtract with overflow")
        ELSE IF max_index = 0
        THEN failed("remainder with a divisor of zero")
        ELSE [status |-> "ok", why |-> "", offset |-> offset,
              window |-> [j \in 1..L |-> word_at(k, size, offset + j - 1)],
              reads |-> {offset + j - 1 : j \in 1..L},
              freq |-> IF c.std THEN freq_bump(freq, offset) ELSE freq]

\* Key::as_words::<W>(): the whole buffer as words, a trailing partial word dropped
as_words(k, size) == [p \in 1..(Len(k) \div size) |-> word_at(k, size, p - 1)]

----------------------------------------------------------------------------
(* algorithm.rs: the generic cipher engine.                                *)

\* align_of::<W>() of the word types u8 and u16
align_of(size) == size

\* block.0.align_to_mut::<W>() on a buffer of n bytes at address addr: the
\* bytes before the first aligned word, the words in the middle, the bytes after
align_to_mut(n, size, addr) ==
    LET pre == (size - (addr % size)) % size
    IN  IF pre > n
        THEN [before |-> n, len |-> 0, after |-> 0]
        ELSE [before |-> pre, len |-> (n - pre) \div size,
              after |-> (n - pre) % size]

\* the middle words of a block as integers, and a block with them written back
block_words(blk, size, v, le) ==
    [i \in 1..v.len |->
        from_ne_bytes([b \in 1..size |-> blk[v.before + (i - 1) * size + b]], le)]

with_words(blk, size, v, words, le) ==
    [j \in 1..Len(blk) |->
        IF j > v.before /\ j <= v.before + v.len * size
        THEN to_ne_bytes(words[((j - v.before - 1) \div size) + 1], size, le)
                [((j - v.before - 1) % size) + 1]
        ELSE blk[j]]

\* the outcome of a call: it returned ("ok") or panicked, the block as the call
\* left it, the key word positions it indexed, and the diagnostic counters
Outcome(status, why, blk, reads, freq) ==
    [status |-> status, why |-> why, block |-> blk, reads |-> reads, freq |-> freq]

\* a | b on unsigned integers
RECURSIVE BitOr(_, _)
BitOr(a, b) ==
    IF a = 0 THEN b
    ELSE IF b = 0 THEN a
    ELSE Max(a % 2, b % 2) + 2 * BitOr(a \div 2, b \div 2)

\* the xor loop with |= for ^=
or_words(buf, window, le) ==
    [i \in 1..Len(buf) |-> BitOr(buf[i], from_ne_bytes(window[i], le))]

\* the xor loop with buf[i] = key[i] - buf[i] (wrapping) for buf[i] ^= key[i]
rsub_words(buf, window, le) ==
    [i \in 1..Len(buf) |->
        (from_ne_bytes(window[i], le) + Pow2(8 * Len(window[i])) - buf[i])
            % Pow2(8 * Len(window[i]))]

\* buf[i] ^= key[i] for i in 0..buf.len()
xor_words(buf, window, le) ==
    [i \in 1..Len(buf) |-> BitXor(buf[i], from_ne_bytes(window[i], le))]

\* cipher_block under feature "word_xor" (lines 89-105), from the hashed index on
cipher_word_xor(c, k, hashed, blk, freq) ==
    LET sk == subkey(c, k, c.W, c.L, hashed, freq)
        v == align_to_mut(Len(blk), c.W, c.addr)
        buf == block_words(blk, c.W, v, c.le)
    IN  IF sk.status = "panic"
        THEN Outcome("panic", sk.why, blk, {}, freq)
        ELSE IF c.debug /\ v.before # 0
        THEN Outcome("panic", "debug_assert before", blk, {}, sk.freq)
        ELSE IF c.debug /\ v.after # 0
        THEN Outcome("panic", "debug_assert after", blk, {}, sk.freq)
        ELSE Outcome("ok", "",
                     with_words(blk, c.W, v, xor_words(buf, sk.window, c.le), c.le),
                     {sk.offset + i - 1 : i \in 1..v.len}, sk.freq)

\* encrypt_upper and encrypt_lower: the key word shifted, xored into the block word
encrypt_upper(block_word, key_word, bit_offset, size) ==
    BitXor(block_word, Shl(key_word, bit_offset, size))

encrypt_lower(block_word, key_word, bit_offset) ==
    BitXor(block_word, Shr(key_word, bit_offset))

\* the loop of lines 169-176 from iteration i on: buf and word_offset as it
\* leaves them, or the panic of an index outside the key
RECURSIVE bit_loop(_, _, _, _, _, _, _)
bit_loop(kw, buf, word_offset, bit_offset, size, i, reads) ==
    IF i >= Len(buf) - 1
    THEN [status |-> "ok", buf |-> buf, word_offset |-> word_offset, reads |-> reads]
    ELSE IF word_offset >= Len(kw)
    THEN [status |-> "panic", buf |-> buf, word_offset |-> word_offset,
          reads |-> reads \cup {word_offset}]
    ELSE LET key_word == kw[word_offset + 1]
             lower == [buf EXCEPT ![i + 1] = encrypt_lower(@, key_word, bit_offset)]
             upper == [lower EXCEPT ![i + 2] = encrypt_upper(@, key_word, bit_offset, size)]
         IN  bit_loop(kw, upper, word_offset + 1, bit_offset, size, i + 1,
                      reads \cup {word_offset})

\* the reads and xors of lines 162-178, once the offsets are known
bit_xor_block(c, kw, blk, v, word_offset, bit_offset, freq) ==
    LET buf == block_words(blk, c.W, v, c.le)
        done(words) == with_words(blk, c.W, v, words, c.le)
    IN  IF word_offset >= Len(kw)
        THEN Outcome("panic", "key index out of bounds", blk, {word_offset}, freq)
        ELSE LET first == [buf EXCEPT ![1] =
                              encrypt_upper(@, kw[word_offset + 1], bit_offset, c.W)]
                 lp == bit_loop(kw, first, word_offset, bit_offset, c.W, 0, {word_offset})
                 last == lp.word_offset + 1
             IN  IF lp.status = "panic"
                 THEN Outcome("panic", "key index out of bounds", done(lp.buf),
                              lp.reads, freq)
                 ELSE IF last >= Len(kw)
                 THEN Outcome("panic", "key index out of bounds", done(lp.buf),
                              lp.reads \cup {last}, freq)
                 ELSE Outcome("ok", "",
                              done([lp.buf EXCEPT ![Len(buf)] =
                                       encrypt_lower(@, kw[last + 1], bit_offset)]),
                              lp.reads \cup {last}, freq)

\* cipher_block without feature "word_xor" (lines 106-179), from the hashed
\* index on.  usize arithmetic panics on overflow in a debug build and wraps in
\* a release build.
cipher_bits(c, k, hashed, blk, freq) ==
    LET kw == [p \in 1..(Len(k) \div c.W) |-> from_ne_bytes(as_words(k, c.W)[p], c.le)]
        v == align_to_mut(Len(blk), c.W, c.addr)
        usize == Pow2(8 * c.usize_bytes)
        max_element == (Len(kw) - v.len + usize) % usize
        word_bits == c.W * 8
        max_bit == (max_element * word_bits) % usize
        offset == hashed % max_bit
        word_offset == offset \div word_bits
        bit_offset == offset % word_bits
    IN  IF c.debug /\ v.before # 0
        THEN Outcome("panic", "debug_assert before", blk, {}, freq)
        ELSE IF c.debug /\ v.after # 0
        THEN Outcome("panic", "debug_assert after", blk, {}, freq)
        ELSE IF c.debug /\ Len(kw) < v.len
        THEN Outcome("panic", "subtract with overflow", blk, {}, freq)
        ELSE IF c.debug /\ max_element * word_bits >= usize
        THEN Outcome("panic", "multiply with overflow", blk, {}, freq)
        ELSE IF max_bit = 0
        THEN Outcome("panic", "remainder with a divisor of zero", blk, {}, freq)
        ELSE IF v.len = 0 \/ Len(kw) = 0
        THEN Outcome("ok", "", blk, {}, freq)
        ELSE bit_xor_block(c, kw, blk, v, word_offset, bit_offset, freq)

\* Index::to_usize: try_into().unwrap() fails when the value is not a usize
to_usize_fails(x, usize_bytes) == x > UMax(usize_bytes)

\* GenericCipher::cipher_block::<L, A, W>(index, block) on an engine built from
\* (hash, key, index_key)
cipher_block(c, k, ik, index, blk, freq) ==
    IF Len(blk) \div c.W # c.L
    THEN Outcome("panic", "wrong L", blk, {}, freq)
    ELSE IF ~(align_of(c.W) >= c.A)
    THEN Outcome("panic", "assert align_of", blk, {}, freq)
    ELSE LET masked == BitXor(index, ik)
             hashed == hash(masked, c.le)
         IN  IF to_usize_fails(hashed, c.usize_bytes)
             THEN Outcome("panic", "to_usize", blk, {}, freq)
             ELSE IF c.word_xor
             THEN cipher_word_xor(c, k, hashed, blk, freq)
             ELSE cipher_bits(c, k, hashed, blk, freq)

----------------------------------------------------------------------------
(* The inputs the model draws.                                             *)

\* the preimage of a hash value: the index whose bytes the S-box maps to h's
inv_sbox(b) == CHOOSE i \in 0..255 : sbox(i) = b
unhash(h) ==
    from_le_bytes([i \in 1..IndexBytes |-> inv_sbox(to_ne_bytes(h, IndexBytes, TRUE)[i])])

\* key material of N bytes: the bytes 0..N-1 of tests::subkey, and a mixed fill
TestKey(N) == [i \in 1..N |-> i - 1]
MixedKey(N) == [i \in 1..N |-> (i * 73 + 29) % 256]

\* blocks of n bytes: all zero, and a mixed fill
ZeroBlock(n) == [i \in 1..n |-> 0]
MixedBlock(n) == [i \in 1..n |-> (i * 101 + 54) % 256]

\* indices: 0, and indices whose hash with offset 0 is small
Indices == {0, unhash(1), unhash(19)}
IndexKeys == {0, UMax(IndexBytes) - 165}

\* the targets: usize as wide as the index (either byte order), or narrower
Targets ==
    {[usize_bytes |-> IndexBytes, le |-> TRUE],
     [usize_bytes |-> IndexBytes, le |-> FALSE],
     [usize_bytes |-> IndexBytes - 1, le |-> TRUE]}

\* the word types of the cipher, by size in bytes (u8, u16), and of subkey (u8..u64)
CipherWords == {1, 2}
KeyWords == {1, 2, 4, 8}
Alignments == {1, 2, 4}

NoFreq == <<>>

\* no thread holds the mutex; a program whose threads are not looked at
NoThread == 0
NoThreads == <<>>
NoBlock == <<>>

\* a block reference exists only at an address its constructors accept:
\* CipherBlockRef::new asserts addr % A = 0, From<&mut GenericCipherBlock> takes
\* an 8-aligned buffer.  Addresses are modulo the widest word.
BlockAddrs(A) == {a \in {0, 1} : a % A = 0}

Configs ==
    {c \in {[W |-> w, L |-> l, A |-> a, addr |-> ad, word_xor |-> wx, debug |-> d,
             std |-> s, usize_bytes |-> t.usize_bytes, le |-> t.le] :
               w \in CipherWords, l \in 0..MaxBlockBytes, a \in Alignments,
               ad \in {0, 1}, wx \in BOOLEAN, d \in BOOLEAN, s \in BOOLEAN,
               t \in Targets} :
        \* feature "std" changes subkey only, which the word_xor build alone calls
        c.std => c.word_xor}

----------------------------------------------------------------------------
(* The cipher engine: an engine is built, then cipher_block is called on   *)
(* the caller's block.                                                     *)

Init ==
    /\ \E n \in 0..MaxBlockBytes : block \in {ZeroBlock(n), MixedBlock(n)}
    /\ \E N \in 0..MaxKeyBytes : key = MixedKey(N)
    /\ cfg \in {c \in Configs :
                  /\ c.addr \in BlockAddrs(c.A)
                  /\ c.L \in {Len(block) \div c.W, (Len(block) \div c.W) + 1}}
    /\ index_key \in IndexKeys
    /\ hist = <<>>
    /\ FREQ = NoFreq
    /\ lock = NoThread
    /\ thread = NoThreads
    /\ iblock = NoBlock

\* cipher.cipher_block::<L, A, W>(index, block); a panic ends the program
CipherBlock(index) ==
    /\ Len(hist) < MaxCalls
    /\ IF hist = <<>> THEN TRUE ELSE hist[Len(hist)].out.status = "ok"
    /\ LET out == cipher_block(cfg, key, index_key, index, block, FREQ)
       IN  /\ block' = out.block
           /\ FREQ' = out.freq
           /\ hist' = Append(hist, [op |-> "cipher_block", index |-> index,
                                    key |-> key, index_key |-> index_key,
                                    before |-> block, out |-> out])
    /\ UNCHANGED <<cfg, key, index_key, iblock, lock, thread>>

Next == \E index \in Indices : CipherBlock(index)

Spec == Init /\ [][Next]_vars

----------------------------------------------------------------------------
(* Properties of the cipher engine.                                        *)

Calls == {i \in 1..Len(hist) : hist[i].op = "cipher_block"}
KeyElements == Len(key) \div cfg.W

\* C1: involution.  Two calls of cipher_block with the same index on the same
\* engine, in either windowing mode, leave the block as it was before the first.
C1_Involution ==
    \A i \in Calls : \A j \in Calls :
        (j = i + 1 /\ hist[i].index = hist[j].index
            /\ hist[i].out.status = "ok" /\ hist[j].out.status = "ok")
        => hist[j].out.block = hist[i].before

\* the case of C1: a bit-granular engine called twice with one index, the
\* first call having changed the block
C1_Witness ==
    /\ Len(hist) = 2
    /\ ~cfg.word_xor
    /\ hist[1].index = hist[2].index
    /\ hist[1].out.status = "ok" /\ hist[2].out.status = "ok"
    /\ hist[1].out.block # hist[1].before
    /\ block = hist[1].before

\* the case of C1 in the word-granular mode
C1_WitnessWordXor ==
    /\ Len(hist) = 2
    /\ cfg.word_xor
    /\ hist[1].index = hist[2].index
    /\ hist[2].out.status = "ok"
    /\ hist[1].out.block # hist[1].before
    /\ block = hist[1].before

\* word i (from 0) of a byte buffer laid out as words of cfg.W bytes from its
\* first byte
WordOf(buf, i) == [b \in 1..cfg.W |-> buf[i * cfg.W + b]]

\* the window C2 names: L key words from word position
\* IndexHash(I XOR S) mod (key_elements - L + 1)
C2_Window(index) ==
    LET start == hash(BitXor(index, index_key), cfg.le) % (KeyElements - cfg.L + 1)
    IN  [i \in 1..cfg.L |-> [b \in 1..cfg.W |-> key[(start + i - 1) * cfg.W + b]]]

\* a ^ b on words given as their bytes
XorBytes(a, b) == [n \in 1..Len(a) |-> BitXor(a[n], b[n])]

\* C2 as claimed: in the word-granular mode a call that returns has set every
\* word B[i], 0 <= i < L, of the block to B[i] XOR subkey<W,L>(IndexHash(I XOR S))[i];
\* an all-zero block becomes the window itself.
C2_WordXor ==
    \A c \in Calls :
        (cfg.word_xor /\ hist[c].out.status = "ok")
        => \A i \in 0..(cfg.L - 1) :
              WordOf(hist[c].out.block, i) =
                  XorBytes(WordOf(hist[c].before, i), C2_Window(hist[c].index)[i + 1])

\* C2 where the block's buffer is aligned for W, which a reference with
\* A = align_of(W) guarantees
C2_WordXorAligned ==
    \A c \in Calls :
        (cfg.word_xor /\ hist[c].out.status = "ok" /\ cfg.addr % cfg.W = 0)
        => \A i \in 0..(cfg.L - 1) :
              WordOf(hist[c].out.block, i) =
                  XorBytes(WordOf(hist[c].before, i), C2_Window(hist[c].index)[i + 1])

\* the scenario of C2 is reached: an all-zero block of two u16 words became the window
C2_AlignedReached ==
    /\ Len(hist) = 1
    /\ cfg.word_xor /\ cfg.W = 2 /\ cfg.L = 2 /\ cfg.addr = 0
    /\ hist[1].out.status = "ok"
    /\ hist[1].before = ZeroBlock(4)
    /\ block # ZeroBlock(4)
    /\ index_key # 0

\* C6 as claimed: every call either fails and leaves the block byte for byte
\* as it was (no failure follows the first xor), or returns with the block
\* fully transformed (in the word-granular mode: each of its L words xored
\* with the window's).
C6_AllOrNothing ==
    \A c \in Calls :
        /\ hist[c].out.status = "panic" => hist[c].out.block = hist[c].before
        /\ (hist[c].out.status = "ok" /\ cfg.word_xor)
           => \A i \in 0..(cfg.L - 1) :
                 WordOf(hist[c].out.block, i) =
                     XorBytes(WordOf(hist[c].before, i),
                              C2_Window(hist[c].index)[i + 1])

\* the failure half of C6 alone: a call that fails has changed no byte
C6_FailureLeavesBlock ==
    \A c \in Calls :
        hist[c].out.status = "panic" => hist[c].out.block = hist[c].before

\* C7 as claimed: whether a call fails is decided by the configuration alone:
\* it fails exactly when L is not BLOCK_BYTES / size_of(W).
C7_FailsIffWrongL ==
    \A c \in Calls :
        (hist[c].out.status = "panic") <=> (cfg.L # Len(hist[c].before) \div cfg.W)

\* C10 as claimed: in the bit-granular mode every key word a call indexes is
\* at a position p with 0 <= p < key.len().
C10_BitReadsInBounds ==
    \A c \in Calls :
        ~cfg.word_xor => hist[c].out.reads \subseteq 0..(KeyElements - 1)

\* C10 where the key has more words than the block: no index leaves the key
C10_BitReadsInBoundsLongKey ==
    \A c \in Calls :
        (~cfg.word_xor /\ KeyElements > cfg.L)
        => hist[c].out.reads \subseteq 0..(KeyElements - 1)

\* the key's words and a block's word i (from 0) as integers
KeyInts == [p \in 1..KeyElements |-> from_ne_bytes(word_at(key, cfg.W, p - 1), cfg.le)]
WordInt(buf, i) == from_ne_bytes(WordOf(buf, i), cfg.le)

\* the bit position a call selects, as a word offset w and a bit offset b
BitPosition(index) ==
    LET word_bits == cfg.W * 8
        offset == hash(BitXor(index, index_key), cfg.le)
                      % ((KeyElements - cfg.L) * word_bits)
    IN  [w |-> offset \div word_bits, b |-> offset % word_bits]

\* the calls C11 is about: bit-granular, returned, on a block of whole aligned
\* words and a key with more words than the block
BitCalls ==
    {c \in Calls : /\ ~cfg.word_xor /\ hist[c].out.status = "ok"
                   /\ cfg.L >= 1 /\ KeyElements > cfg.L
                   /\ cfg.addr % cfg.W = 0 /\ Len(hist[c].before) = cfg.L * cfg.W}

\* C11 as claimed: in the bit-granular mode with bit offset b every block word
\* i is xored with key[w+i] shifted left by b and with the next key word,
\* key[w+i+1], shifted right (by whatever amount), so that it combines two
\* distinct consecutive key words.
C11_Straddle ==
    \A c \in BitCalls :
        LET p == BitPosition(hist[c].index)
        IN  \A i \in 0..(cfg.L - 1) : \E r \in 0..(cfg.W * 8 - 1) :
                WordInt(hist[c].out.block, i) =
                    BitXor(BitXor(WordInt(hist[c].before, i),
                                  Shl(KeyInts[p.w + i + 1], p.b, cfg.W)),
                           Shr(KeyInts[p.w + i + 2], r))

\* what the loop of lines 162-178 xors into block word i instead: key word
\* hi(i) shifted left by b and key word lo(i) shifted right by b, where the
\* first block word takes key[w] twice, the later ones lag one key word
\* behind, and the last takes key[w+L], so that key[w+L-1] is never read
C11_AsCoded ==
    \A c \in BitCalls :
        LET p == BitPosition(hist[c].index)
            hi(i) == IF i = 0 THEN p.w ELSE p.w + i - 1
            lo(i) == IF i = cfg.L - 1 THEN p.w + cfg.L ELSE p.w + i
        IN  /\ \A i \in 0..(cfg.L - 1) :
                  WordInt(hist[c].out.block, i) =
                      BitXor(BitXor(WordInt(hist[c].before, i),
                                    Shl(KeyInts[hi(i) + 1], p.b, cfg.W)),
                             Shr(KeyInts[lo(i) + 1], p.b))
            /\ cfg.L >= 2 => (p.w + cfg.L - 1) \notin hist[c].out.reads

\* C11 on a block of one word, where the code does what is claimed
C11_StraddleOneWord ==
    \A c \in BitCalls :
        LET p == BitPosition(hist[c].index)
        IN  cfg.L = 1
            => WordInt(hist[c].out.block, 0) =
                   BitXor(BitXor(WordInt(hist[c].before, 0),
                                 Shl(KeyInts[p.w + 1], p.b, cfg.W)),
                          Shr(KeyInts[p.w + 2], p.b))

\* C12: every cipher_block call leaves the key material and the index offset
\* as they were at construction (each call found them as they are now, the
\* first call as they were built), and what a call does (the block it leaves,
\* the key words it reads, whether and why it fails) is what the same call
\* does as the first call of the engine on the same block: it depends on the
\* key, the index offset, the index and the input block only, not on any
\* earlier call or on the usage counters earlier calls left.
\* (hist only grows, so the latest call is the one to recompute in each state.)
C12_Frame ==
    /\ \A c \in Calls : hist[c].key = key /\ hist[c].index_key = index_key
    /\ \A c \in Calls \cap {Len(hist)} :
          LET fresh == cipher_block(cfg, key, index_key, hist[c].index,
                                    hist[c].before, NoFreq)
          IN  /\ hist[c].out.block = fresh.block
              /\ hist[c].out.status = fresh.status
              /\ hist[c].out.why = fresh.why
              /\ hist[c].out.reads = fresh.reads

\* a second call of an engine whose first call left usage counters behind
\* (a build with feature "std"), the second call changing the block
C12_Witness ==
    /\ Len(hist) = 2
    /\ cfg.std
    /\ hist[1].out.freq # NoFreq
    /\ hist[2].out.status = "ok"
    /\ hist[2].out.block # hist[2].before
    /\ hist[2].index # hist[1].index

\* the indices applied an odd number of times so far
OddIndices == {i \in Indices : Cardinality({c \in Calls : hist[c].index = i}) % 2 = 1}

\* cipher_block called once for each index of S, the smallest index first
RECURSIVE ApplyEach(_, _)
ApplyEach(S, out) ==
    IF S = {} \/ out.status # "ok" THEN out
    ELSE LET i == CHOOSE x \in S : \A y \in S : x <= y
         IN  ApplyEach(S \ {i}, cipher_block(cfg, key, index_key, i, out.block, out.freq))

\* C14: cipher_block calls on one engine commute, so that the block after a
\* sequence of calls that all returned is the first block with cipher_block
\* applied once, in whatever order (here ascending), for each index the
\* sequence applied an odd number of times.
C14_Commute ==
    (Calls # {} /\ \A c \in Calls : hist[c].out.status = "ok")
    => LET out == ApplyEach(OddIndices, Outcome("ok", "", hist[1].before, {}, NoFreq))
       IN  out.status = "ok" /\ out.block = block

\* two calls with different indices, the larger index first, each changing
\* the block, in the bit-granular mode
C14_Witness ==
    /\ Len(hist) = 2
    /\ ~cfg.word_xor
    /\ hist[1].index > hist[2].index
    /\ hist[1].out.status = "ok" /\ hist[2].out.status = "ok"
    /\ hist[1].out.block # hist[1].before
    /\ hist[2].out.block # hist[2].before
    /\ hist[2].out.block # hist[1].before

\* the same in the word-granular mode
C14_WitnessWordXor ==
    /\ Len(hist) = 2
    /\ cfg.word_xor
    /\ hist[1].index > hist[2].index
    /\ hist[1].out.status = "ok" /\ hist[2].out.status = "ok"
    /\ hist[1].out.block # hist[1].before
    /\ hist[2].out.block # hist[2].before
    /\ hist[2].out.block # hist[1].before

----------------------------------------------------------------------------
(* The key material on its own: subkey called on a key directly.           *)

\* the key of tests::subkey has KEY_LEN bytes
TestKeyLen == 32

\* word offsets: the small ones, and the largest a usize holds
Offsets == (0..MaxOffset) \cup {UMax(IndexBytes) - 1, UMax(IndexBytes)}

\* a build for calls that use no cipher parameter
KeyConfigs ==
    {[W |-> 1, L |-> 0, A |-> 1, addr |-> 0, word_xor |-> TRUE, debug |-> d,
      std |-> FALSE, usize_bytes |-> IndexBytes, le |-> le] :
        d \in BOOLEAN, le \in BOOLEAN}

InitKey ==
    /\ key \in {TestKey(N) : N \in (0..MaxKeyBytes) \cup {TestKeyLen}}
    /\ cfg \in {c \in KeyConfigs : c.le}
    /\ index_key = 0
    /\ block = NoBlock
    /\ hist = <<>>
    /\ FREQ = NoFreq
    /\ lock = NoThread
    /\ thread = NoThreads
    /\ iblock = NoBlock

\* key.subkey::<W, L>(word_offset), once on the key drawn
Subkey(size, L, word_offset) ==
    /\ hist = <<>>
    /\ LET out == subkey(cfg, key, size, L, word_offset, FREQ)
       IN  /\ hist' = <<[op |-> "subkey", size |-> size, L |-> L,
                         word_offset |-> word_offset, out |-> out]>>
           /\ FREQ' = out.freq
    /\ UNCHANGED <<cfg, key, index_key, block, iblock, lock, thread>>

NextKey ==
    \E size \in KeyWords : \E L \in 0..MaxWindow : \E word_offset \in Offsets :
        Subkey(size, L, word_offset)

SpecKey == InitKey /\ [][NextKey]_vars

SubkeyCalls == {i \in 1..Len(hist) : hist[i].op = "subkey"}

\* C3: in-bounds windowing.  A call of subkey<W,L>(O) with L <= key_elements(W),
\* L = 0 included, returns; its window has exactly L elements; every word it
\* reads is at a position p with 0 <= p < key_elements(W), inside the buffer.
C3_InBounds ==
    \A i \in SubkeyCalls :
        LET h == hist[i]
            key_elements == Len(key) \div h.size
        IN  h.L <= key_elements
            => /\ h.out.status = "ok"
               /\ Len(h.out.window) = h.L
               /\ h.out.reads \subseteq 0..(key_elements - 1)
               /\ \A j \in 1..h.L : \A b \in 1..h.size :
                     h.out.window[j][b] # Outside

\* the case of C3: the longest window the key has, asked for at the largest offset
C3_Witness ==
    /\ Len(hist) = 1 /\ hist[1].op = "subkey"
    /\ hist[1].L = Len(key) \div hist[1].size
    /\ hist[1].L > 1
    /\ hist[1].word_offset = UMax(IndexBytes)
    /\ hist[1].out.status = "ok"
    /\ Len(hist[1].out.window) = hist[1].L

\* the zero-size case of C3: an empty window, on an empty key too
C3_WitnessZero ==
    /\ Len(hist) = 1 /\ hist[1].op = "subkey"
    /\ hist[1].L = 0 /\ key = <<>>
    /\ hist[1].out.status = "ok" /\ hist[1].out.window = <<>>

\* C4: subkey<W,L>(O) is the L contiguous key words from word position
\* O mod (key_elements(W) - L + 1), key_elements(W) = N / size_of(W).  On the
\* 32-byte key valued 0..31, subkey<u32,1>(i) is the word at byte offset
\* (i*4) mod 32 and the last word of subkey<u32,4>(i) is at (i*4 mod 20) + 12.
C4_Window ==
    \A i \in SubkeyCalls :
        LET h == hist[i]
            N == Len(key)
            start == h.word_offset % ((N \div h.size) - h.L + 1)
            at(b0) == [b \in 1..4 |-> b0 + b - 1]
        IN  h.out.status = "ok"
            => /\ \A j \in 0..(h.L - 1) : \A b \in 0..(h.size - 1) :
                     h.out.window[j + 1][b + 1] = key[(start + j) * h.size + b + 1]
               /\ (N = TestKeyLen /\ h.size = 4 /\ h.L = 1)
                  => h.out.window[1] = at((h.word_offset * 4) % 32)
               /\ (N = TestKeyLen /\ h.size = 4 /\ h.L = 4)
                  => h.out.window[4] = at(((h.word_offset * 4) % 20) + 12)

\* the case of C4: a window of four u32 words of the 32-byte key whose offset wrapped
C4_Witness ==
    /\ Len(hist) = 1 /\ hist[1].op = "subkey"
    /\ Len(key) = TestKeyLen
    /\ hist[1].size = 4 /\ hist[1].L = 4
    /\ hist[1].word_offset = 7
    /\ hist[1].out.status = "ok"
    /\ hist[1].out.window[4] = <<20, 21, 22, 23>>

\* C5: window overflow.  A call of subkey<W,L>(O) with L > key_elements(W) fails
\* in the length check, before any key word is read.
C5_Overflow ==
    \A i \in SubkeyCalls :
        LET h == hist[i]
        IN  h.L > Len(key) \div h.size
            => /\ h.out.status = "panic"
               /\ h.out.why = "subkey larger than main key"
               /\ h.out.reads = {}
               /\ h.out.window = <<>>

\* the case of C5: a window of u16 words that fits in bytes but not in words
C5_Witness ==
    /\ Len(hist) = 1 /\ hist[1].op = "subkey"
    /\ hist[1].size = 2
    /\ hist[1].L > Len(key) \div 2 /\ hist[1].L <= Len(key)
    /\ hist[1].out.status = "panic"

----------------------------------------------------------------------------
(* key.rs under feature "std": threads calling subkey on one key.  FREQ is *)
(* one map for the process behind a Mutex; a call computes its offset      *)
(* (lines 74-86), takes the lock (90), finds or makes the offset's entry   *)
(* (91), adds one to it (92), drops the lock (93) and returns the window.  *)
(* A panic unwinds the calling thread only.                                *)

NumThreads == 2
MaxSubkeyCalls == 3

Threads == 1..NumThreads

\* a thread between calls; the locals of a call are its arguments, its
\* reduced offset and the count it read through the entry
IdleThread == [pc |-> "idle", size |-> 0, L |-> 0, word_offset |-> 0,
               offset |-> 0, count |-> 0]

\* the calls the threads make: u8 and u16 words, a window of one word or one
\* longer than any key, two word offsets
FreqSizes == {1, 2}
FreqWindows == {1, MaxKeyBytes + 1}
FreqOffsets == {1, 4}
FreqKeyBytes == {2, 3}

\* FREQ's count of an offset, 0 without an entry
FreqOf(o) == IF o \in DOMAIN FREQ THEN FREQ[o] ELSE 0

\* calls begun and not yet returned or failed
InFlight == {t \in Threads : thread[t].pc \notin {"idle", "dead"}}

InitFreq ==
    /\ key \in {TestKey(N) : N \in FreqKeyBytes}
    /\ cfg \in {[c EXCEPT !.std = TRUE] : c \in {k \in KeyConfigs : k.le}}
    /\ index_key = 0
    /\ block = NoBlock
    /\ hist = <<>>
    /\ FREQ = NoFreq
    /\ iblock = NoBlock
    /\ lock = NoThread
    /\ thread = [t \in Threads |-> IdleThread]

\* lines 74-86: the length check and the reduced offset; a panic ends the thread
SubkeyBegin(t, size, L, word_offset) ==
    /\ thread[t].pc = "idle"
    /\ Len(hist) + Cardinality(InFlight) < MaxSubkeyCalls
    /\ LET out == subkey(cfg, key, size, L, word_offset, NoFreq)
       IN  IF out.status = "panic"
           THEN /\ thread' = [thread EXCEPT ![t].pc = "dead"]
                /\ hist' = Append(hist, [op |-> "subkey", thread |-> t, size |-> size,
                                         L |-> L, word_offset |-> word_offset,
                                         out |-> [status |-> "panic", why |-> out.why,
                                                  offset |-> 0]])
           ELSE /\ thread' = [thread EXCEPT ![t] =
                                 [pc |-> "lock", size |-> size, L |-> L,
                                  word_offset |-> word_offset,
                                  offset |-> out.offset, count |-> 0]]
                /\ hist' = hist
    /\ UNCHANGED <<cfg, key, index_key, block, FREQ, iblock, lock>>

\* FREQ.lock() taken whether or not another thread holds it
FreqLock_not_exclusive(t) ==
    /\ thread[t].pc = "lock"
    /\ lock' = t
    /\ thread' = [thread EXCEPT ![t].pc = "entry"]
    /\ UNCHANGED <<cfg, key, index_key, block, hist, FREQ, iblock>>

\* line 90: FREQ.lock().unwrap(), which waits while another thread holds the
\* lock (no thread panics holding it, so it is never poisoned)
FreqLock(t) ==
    /\ thread[t].pc = "lock"
    /\ lock = NoThread
    /\ lock' = t
    /\ thread' = [thread EXCEPT ![t].pc = "entry"]
    /\ UNCHANGED <<cfg, key, index_key, block, hist, FREQ, iblock>>

\* line 91: lock.entry(offset).or_insert_with(|| 0), and the read of *count
\* that line 92 begins with
FreqEntry(t) ==
    /\ thread[t].pc = "entry"
    /\ LET o == thread[t].offset
       IN  /\ FREQ' = IF o \in DOMAIN FREQ THEN FREQ
                      ELSE [x \in DOMAIN FREQ \cup {o} |-> IF x = o THEN 0 ELSE FREQ[x]]
           /\ thread' = [thread EXCEPT ![t].pc = "add", ![t].count = FreqOf(o)]
    /\ UNCHANGED <<cfg, key, index_key, block, hist, iblock, lock>>

\* line 92: *count += 1, the write
FreqAdd(t) ==
    /\ thread[t].pc = "add"
    /\ FREQ' = [FREQ EXCEPT ![thread[t].offset] = thread[t].count + 1]
    /\ thread' = [thread EXCEPT ![t].pc = "unlock"]
    /\ UNCHANGED <<cfg, key, index_key, block, hist, iblock, lock>>

\* line 93: the guard dropped; lines 95-109: the window returned
FreqUnlock(t) ==
    /\ thread[t].pc = "unlock"
    /\ lock' = NoThread
    /\ thread' = [thread EXCEPT ![t] = IdleThread]
    /\ hist' = Append(hist, [op |-> "subkey", thread |-> t, size |-> thread[t].size,
                             L |-> thread[t].L, word_offset |-> thread[t].word_offset,
                             out |-> [status |-> "ok", why |-> "",
                                      offset |-> thread[t].offset]])
    /\ UNCHANGED <<cfg, key, index_key, block, FREQ, iblock>>

NextFreq ==
    \E t \in Threads :
        \/ \E size \in FreqSizes : \E L \in FreqWindows : \E word_offset \in FreqOffsets :
               SubkeyBegin(t, size, L, word_offset)
        \/ FreqLock(t)
        \/ FreqEntry(t)
        \/ FreqAdd(t)
        \/ FreqUnlock(t)

SpecFreq == InitFreq /\ [][NextFreq]_vars

\* the offset a call with these arguments selects: word_offset mod max_index
Selected(c) == c.word_offset % (((Len(key) \div c.size) + 1) - c.L)

\* the calls that passed the length check and have added to their counter:
\* those returned, and those about to drop the lock
Returned(o) == {c \in SubkeyCalls : hist[c].out.status = "ok" /\ Selected(hist[c]) = o}
Adding(o) == {t \in Threads : thread[t].pc = "unlock" /\ Selected(thread[t]) = o}

\* C13: in a build with the diagnostics, under every interleaving of the
\* threads' subkey calls the counter of each offset is the number of calls
\* that passed the length check, selected that offset (word_offset mod
\* max_index) and have done their increment: each such call added exactly
\* one to that counter and to no other, no increment was lost, and a call
\* that failed the length check changed no counter.
C13_Counters ==
    \A o \in (0..MaxKeyBytes) \cup DOMAIN FREQ :
        FreqOf(o) = Cardinality(Returned(o)) + Cardinality(Adding(o))

\* at most one thread is between taking the lock and dropping it
C13_Exclusive ==
    \A t \in Threads : \A u \in Threads :
        (thread[t].pc \in {"entry", "add", "unlock"}
            /\ thread[u].pc \in {"entry", "add", "unlock"}) => t = u

\* a counter at 2 after calls of two threads that overlapped: one thread has
\* just added to the counter of an offset that a returned call selected too,
\* while the other thread waits for the lock
C13_Witness ==
    \E t \in Threads : \E u \in Threads :
        /\ thread[t].pc = "unlock"
        /\ thread[u].pc = "lock"
        /\ FreqOf(thread[t].offset) = 2
        /\ \E c \in SubkeyCalls : hist[c].thread = u /\ hist[c].out.status = "ok"

\* a call that failed the length check beside one that was counted
C13_WitnessFailed ==
    /\ \E c \in SubkeyCalls : hist[c].out.status = "panic"
    /\ \E c \in SubkeyCalls : hist[c].out.status = "ok"
    /\ \E o \in DOMAIN FREQ : FREQ[o] = 1

----------------------------------------------------------------------------
(* The index hash on its own.                                              *)

\* index bytes the hash is applied to, and the indices made of them
HashBytes == {0, 1, 2, 9, 82, 83, 99, 127, 128, 200, 254, 255}
HashInputs ==
    {from_le_bytes(bytes) : bytes \in [1..IndexBytes -> HashBytes]}

InitHash ==
    /\ cfg \in KeyConfigs
    /\ key = <<>>
    /\ index_key = 0
    /\ block = NoBlock
    /\ hist = <<>>
    /\ FREQ = NoFreq
    /\ lock = NoThread
    /\ thread = NoThreads
    /\ iblock = NoBlock

\* hash(index), once on the index drawn
Hash(index) ==
    /\ hist = <<>>
    /\ hist' = <<[op |-> "hash", index |-> index, out |-> hash(index, cfg.le)]>>
    /\ UNCHANGED <<cfg, key, index_key, block, FREQ, iblock, lock, thread>>

NextHash == \E index \in HashInputs : Hash(index)

SpecHash == InitHash /\ [][NextHash]_vars

\* byte k of an integer, k = 0 the least significant
ByteOf(x, k) == (x \div Pow2(8 * k)) % 256

\* C8: the index hash.  Byte k of hash(x) is S_BOX[byte k of x] for every byte
\* position k of the index; S_BOX has 256 entries and is a permutation of
\* 0..255; the output is as wide as the input.
C8_Hash ==
    /\ Len(S_BOX) = 256
    /\ {S_BOX[i] : i \in 1..256} = 0..255
    /\ \A i \in 1..Len(hist) :
          hist[i].op = "hash"
          => /\ hist[i].out \in 0..UMax(IndexBytes)
             /\ \A k \in 0..(IndexBytes - 1) :
                   ByteOf(hist[i].out, k) = S_BOX[ByteOf(hist[i].index, k) + 1]

\* the case of C8: an index whose bytes differ, hashed on a big-endian target
C8_Witness ==
    /\ Len(hist) = 1 /\ hist[1].op = "hash"
    /\ ~cfg.le
    /\ hist[1].index = 1 + 256 * 82
    /\ hist[1].out = 124

----------------------------------------------------------------------------
(* alg2.rs: the packed indexed block.                                      *)

ELEMENT_COUNT == 31

align_up(x, a) == ((x + a - 1) \div a) * a

\* the layout of u64 (its alignment is the target's) and of [T; n]
u64_layout(c) == [size |-> 8, align |-> c.u64_align]
array_layout(elem, n) == [size |-> elem.size * n, align |-> elem.align]

\* the layout without the align(a) attribute: plain #[repr(C)]
repr_c_plain(f1, f2, a) ==
    LET align == Max(f1.align, f2.align)
        offset2 == align_up(f1.size, f2.align)
    IN  [size |-> align_up(offset2 + f2.size, align), align |-> align,
         offsets |-> <<0, offset2>>]

\* #[repr(C, align(a))] on a struct of two fields: each field at the next
\* offset aligned for it, the size rounded up to the alignment
repr_c_align(f1, f2, a) ==
    LET align == Max(a, Max(f1.align, f2.align))
        offset2 == align_up(f1.size, f2.align)
    IN  [size |-> align_up(offset2 + f2.size, align), align |-> align,
         offsets |-> <<0, offset2>>]

\* struct IndexedBlock { index: u64, data: [u64; ELEMENT_COUNT] }
IndexedBlockLayout(c) ==
    repr_c_align(u64_layout(c), array_layout(u64_layout(c), ELEMENT_COUNT), 8)

\* IndexedBlock::new(): index 0, data all zero, as the bytes of its memory
IndexedBlock_new(c) == [i \in 1..IndexedBlockLayout(c).size |-> 0]

\* as_bytes / as_bytes_mut: size_of::<Self>() bytes from the struct's address
as_bytes(c, ib) == [i \in 1..IndexedBlockLayout(c).size |-> mem(ib, i - 1)]

\* the fields, as the bytes they occupy
index_of(c, ib) ==
    [b \in 1..8 |-> mem(ib, IndexedBlockLayout(c).offsets[1] + b - 1)]
data_of(c, ib) ==
    [w \in 1..ELEMENT_COUNT |->
        [b \in 1..8 |-> mem(ib, IndexedBlockLayout(c).offsets[2] + (w - 1) * 8 + b - 1)]]

\* byte positions written through as_bytes_mut, and the values written
WirePositions == {0, 7, 8, 15, 248, 255}
WireValues == {0, 1, 255}

InitWire ==
    /\ cfg \in {[u64_align |-> a] : a \in {4, 8}}
    /\ iblock = IndexedBlock_new(cfg)
    /\ key = <<>>
    /\ index_key = 0
    /\ block = NoBlock
    /\ hist = <<>>
    /\ FREQ = NoFreq
    /\ lock = NoThread
    /\ thread = NoThreads

\* block.as_bytes()
AsBytes ==
    /\ hist' = <<[op |-> "as_bytes", out |-> as_bytes(cfg, iblock)]>>
    /\ UNCHANGED <<cfg, key, index_key, block, FREQ, iblock, lock, thread>>

\* block.as_bytes_mut()[p] = v, as a receiver fills the record
AsBytesMut(p, v) ==
    /\ p < Len(as_bytes(cfg, iblock))
    /\ iblock' = [as_bytes(cfg, iblock) EXCEPT ![p + 1] = v]
    /\ hist' = <<[op |-> "as_bytes_mut", out |-> as_bytes(cfg, iblock')]>>
    /\ UNCHANGED <<cfg, key, index_key, block, FREQ, lock, thread>>

NextWire ==
    \/ AsBytes
    \/ \E p \in WirePositions : \E v \in WireValues : AsBytesMut(p, v)

SpecWire == InitWire /\ [][NextWire]_vars

\* C9: the packed indexed block (one 64-bit index, then 31 64-bit payload
\* words) has size 256 and alignment 8, and as_bytes / as_bytes_mut expose
\* exactly those 256 bytes: the index field's 8, then the payload's 248.
C9_IndexedBlock ==
    /\ IndexedBlockLayout(cfg).size = 256
    /\ IndexedBlockLayout(cfg).align = 8
    /\ Len(iblock) = 256
    /\ \A i \in 1..Len(hist) :
          hist[i].op \in {"as_bytes", "as_bytes_mut"}
          => /\ Len(hist[i].out) = 256
             /\ \A b \in 1..8 : hist[i].out[b] = index_of(cfg, iblock)[b]
             /\ \A w \in 1..31 : \A b \in 1..8 :
                   hist[i].out[8 * w + b] = data_of(cfg, iblock)[w][b]

\* the case of C9: the last byte of the record written through as_bytes_mut
\* and read back through as_bytes on a target that aligns u64 to 4
C9_Witness ==
    /\ cfg.u64_align = 4
    /\ Len(hist) = 1 /\ hist[1].op = "as_bytes"
    /\ hist[1].out[256] = 255
    /\ hist[1].out[1] = 1
    /\ data_of(cfg, iblock)[31][8] = 255

====
